---------------------------- MODULE Spec2Model ----------------------------
(***************************************************************************)
(* Recipon: the URL metadata enrichment pipeline of src/app.py.            *)
(*                                                                         *)
(* A Python str is a sequence of characters.  A character is a TLA+ string:  *)
(* an ASCII character is itself, hiragana is "h_" and katakana "k_" plus its *)
(* romaji ("k_choon" is the long mark), a kanji is "j_" plus a reading, a    *)
(* full-width sign is "fw" plus its ASCII form, "[[" and "]]" are the lenticular *)
(* brackets, "en-" and "em-" the dashes.  Python's None is the value None.  *)
(***************************************************************************)
EXTENDS Integers, Sequences, FiniteSets, TLC

VARIABLES
    raw, cleaned, recleaned,       \* clean_dish_title: argument, result, result on the result
    html, jsonldName, metaTitle, cleanedTitle, title,
                                   \* the title pipeline on one fetched page
    url, dns, safe,                \* _is_safe_public_http_url: argument, DNS answer, result
    text, category, normalized,    \* guess_category_from_text and normalize_category: argument, results
    response,                      \* the JSON body /meta answers with
    pageUrl, imageHtml, image,     \* get_og_image on one fetched page
    rows, req, reply,              \* the recipe_links table, the requests in progress, the answers
    cache, call, hist, prev        \* an lru_cache, the calls in flight, and history

cleanVars == <<raw, cleaned, recleaned>>
pageVars  == <<html, jsonldName, metaTitle, cleanedTitle, title>>
urlVars   == <<url, dns, safe>>
catVars   == <<text, category, normalized>>
metaVars  == <<response>>
imgVars   == <<pageUrl, imageHtml, image>>
dbVars    == <<rows, req, reply>>
sysVars   == <<cache, call, hist, prev>>
vars      == <<cleanVars, pageVars, urlVars, catVars, sysVars, metaVars, imgVars, dbVars>>

(***************************************************************************)
(* Optional values and strings                                             *)
(***************************************************************************)
None  == <<"None">>      \* Python None (no character is spelled "None")
Unset == <<"Unset">>     \* a variable of the driver not assigned yet

\* Python truthiness of an Optional[str]: None and "" are falsy.
Truthy(s) == s # None /\ s # <<>>

Min(S) == CHOOSE x \in S : \A y \in S : x <= y

Take(s, n) == SubSeq(s, 1, n)
Drop(s, n) == SubSeq(s, n + 1, Len(s))

StartsWith(s, w) == Len(w) <= Len(s) /\ Take(s, Len(w)) = w
EndsWith(s, w)   == Len(w) <= Len(s) /\ Drop(s, Len(s) - Len(w)) = w

\* n copies of the character c
Rep(c, n) == [i \in 1..n |-> c]

\* the characters regex \s and str.strip() treat as whitespace
WS == {" ", "U+3000", "\t", "\n"}   \* "U+3000" stands for the ideographic space

\* the number of leading (trailing) characters of s that are in cs
LeadRun(s, cs) ==
    IF \A i \in 1..Len(s) : s[i] \in cs THEN Len(s)
    ELSE CHOOSE k \in 0..(Len(s) - 1) :
             s[k + 1] \notin cs /\ \A j \in 1..k : s[j] \in cs

TrailRun(s, cs) ==
    IF \A i \in 1..Len(s) : s[i] \in cs THEN Len(s)
    ELSE CHOOSE k \in 0..(Len(s) - 1) :
             s[Len(s) - k] \notin cs /\ \A j \in 0..(k - 1) : s[Len(s) - j] \in cs

\* str.strip(chars): drop the leading and trailing characters that are in cs
StripSet(s, cs) ==
    IF LeadRun(s, cs) = Len(s) THEN <<>>
    ELSE SubSeq(s, LeadRun(s, cs) + 1, Len(s) - TrailRun(s, cs))

strip(s) == StripSet(s, WS)

\* drop the leading whitespace run (regex \s* at the start of a match)
LStrip(s) == SubSeq(s, LeadRun(s, WS) + 1, Len(s))

\* drop the trailing whitespace run (regex \s* before the rest of a match)
RStrip(s) == SubSeq(s, 1, Len(s) - TrailRun(s, WS))

\* re.sub(r"\s+", " ", s): every maximal whitespace run becomes one space
\* (the first character of a run is kept, as a space; the others are dropped)
CollapseWs(s) ==
    LET marked == [i \in 1..Len(s) |->
                      [c |-> IF s[i] \in WS THEN " " ELSE s[i],
                       drop |-> s[i] \in WS /\ i > 1 /\ s[i - 1] \in WS]]
        Kept(m) == ~m.drop
        kept == SelectSeq(marked, Kept)
    IN  [i \in 1..Len(kept) |-> kept[i].c]

(***************************************************************************)
(* clean_dish_title (src/app.py 207-255)                                   *)
(***************************************************************************)
\* "レシピ", "作り方", "簡単", "人気", "おすすめ", "献立", "材料", "手順", "動画",
\* "プロの", "定番", "料理", "キッチン"
_NOISE_WORDS == <<
    <<"k_re", "k_shi", "k_pi">>,
    <<"j_saku", "h_ri", "j_kata">>,
    <<"j_kan", "j_tan">>,
    <<"j_hito", "j_ki">>,
    <<"h_o", "h_su", "h_su", "h_me">>,
    <<"j_kon", "j_date">>,
    <<"j_zai", "j_ryo">>,
    <<"j_te", "j_jun">>,
    <<"j_dou", "j_ga">>,
    <<"k_pu", "k_ro", "h_no">>,
    <<"j_tei", "j_ban">>,
    <<"j_ryo", "j_ri">>,
    <<"k_ki", "k_xtsu", "k_chi", "k_n">> >>

\* the separator characters of _SPLIT_SEP_RE: [｜|] [-–—] : ： ／ /
SepChars == {"fw|", "|", "-", "en-", "em-", ":", "fw:", "fw/", "/"}

\* _SPLIT_SEP_RE.split(s)[0]: the text before the leftmost match of
\* \s*SEP\s*, which starts at the whitespace run before the first separator
SplitFirst(s) ==
    LET seps == {i \in 1..Len(s) : s[i] \in SepChars}
    IN  IF seps = {} THEN s
        ELSE RStrip(Take(s, Min(seps) - 1))

TailInnerMax == 40

\* one alternative of _TAIL_RE matches all of u
TailAlt(u) ==
    LET n == Len(u)
        Bracket(open, close) ==
            /\ n >= 3 /\ u[1] = open /\ u[n] = close
            /\ n - 2 <= TailInnerMax
            /\ \A i \in 2..(n - 1) : u[i] # close
        ByTok ==
            /\ n >= 4 /\ u[1] \in {"b", "B"} /\ u[2] = "y" /\ u[3] \in WS
            /\ LET rest == LStrip(Drop(u, 2))
               IN  rest # <<>> /\ \A i \in 1..Len(rest) : rest[i] \notin WS
    IN  ByTok \/ Bracket("[[", "]]") \/ Bracket("(", ")") \/ Bracket("fw(", "fw)")

\* _TAIL_RE.sub("", s): the leftmost position from which the rest of s is
\* \s* alternative \s* up to the end is cut off
TailSub(s) ==
    LET starts == {p \in 1..Len(s) :
                      /\ s[p] \in WS \cup {"b", "B", "[[", "(", "fw("}
                      /\ TailAlt(RStrip(LStrip(Drop(s, p - 1))))}
    IN  IF starts = {} THEN s ELSE Take(s, Min(starts) - 1)

\* for _ in range(2): ns = _TAIL_RE.sub("", s).strip(); stop when unchanged
TailLoop(s) ==
    LET s1 == strip(TailSub(s))
    IN  IF s1 = s THEN s ELSE strip(TailSub(s1))

\* re.sub(rf"{w}$", "", s)
SubSuffix(s, w) == IF EndsWith(s, w) THEN Take(s, Len(s) - Len(w)) ELSE s

\* re.sub(rf"\s*{w}$", "", s)
SubWsSuffix(s, w) == IF EndsWith(s, w) THEN RStrip(Take(s, Len(s) - Len(w))) ELSE s

\* re.sub(rf"^{w}\s*", "", s)
SubPrefixWs(s, w) == IF StartsWith(s, w) THEN LStrip(Drop(s, Len(w))) ELSE s

\* re.sub(rf"^{w}[:：]?\s*", "", s)
SubPrefixColonWs(s, w) ==
    IF ~StartsWith(s, w) THEN s
    ELSE LET r == Drop(s, Len(w))
         IN  IF r # <<>> /\ r[1] \in {":", "fw:"} THEN LStrip(Drop(r, 1)) ELSE LStrip(r)

RecipeWord   == \* レシピ
    <<"k_re", "k_shi", "k_pi">>
HowToWord    == \* 作り方
    <<"j_saku", "h_ri", "j_kata">>

\* the four marker substitutions of lines 237-240
StripMarkers(s) ==
    LET a == strip(SubSuffix(s, RecipeWord))
        b == strip(SubPrefixColonWs(a, RecipeWord))
        c == strip(SubSuffix(b, HowToWord))
    IN  strip(SubPrefixColonWs(c, HowToWord))

\* for w in _NOISE_WORDS: strip w as a prefix, then as a suffix
RECURSIVE StripNoise(_, _)
StripNoise(s, k) ==
    IF s = <<>> \/ k > Len(_NOISE_WORDS) THEN s    \* nothing is stripped from ""
    ELSE LET w == _NOISE_WORDS[k]
             a == strip(SubPrefixWs(s, w))
             b == strip(SubWsSuffix(a, w))
         IN  StripNoise(b, k + 1)

\* さん ちゃん くん 氏
Honorifics == {<<"h_sa", "h_n">>, <<"h_chi", "h_xya", "h_n">>, <<"h_ku", "h_n">>, <<"j_shi">>}

\* re.sub(r"\s+(さん|ちゃん|くん|氏)$", "", s)
StripHonorific(s) ==
    LET hs == {w \in Honorifics :
                  EndsWith(s, w) /\ Len(s) > Len(w) /\ s[Len(s) - Len(w)] \in WS}
    IN  IF hs = {} THEN s
        ELSE LET w == CHOOSE x \in hs : TRUE
             IN  RStrip(Take(s, Len(s) - Len(w)))

\* s.strip(" -–—|｜:：/／")
PunctChars == {" ", "-", "en-", "em-", "|", "fw|", ":", "fw:", "/", "fw/"}

TitleMin == 2
TitleMax == 60

clean_dish_title(r) ==
    IF ~Truthy(r) THEN None
    ELSE LET s0 == strip(CollapseWs(r))
         IN  IF s0 = <<>> THEN None
             ELSE LET s1 == strip(SplitFirst(s0))
                      s2 == TailLoop(s1)
                      s3 == StripMarkers(s2)
                      s4 == StripNoise(s3, 1)
                      s5 == strip(StripHonorific(s4))
                      s6 == strip(StripSet(s5, PunctChars))
                  IN  IF TitleMin <= Len(s6) /\ Len(s6) <= TitleMax THEN s6 ELSE None

(***************************************************************************)
(* The fetched HTML.  The extractors read it with regular expressions that *)
(* match whole tags, so a document is the sequence of its tags in document *)
(* order:                                                                  *)
(*   [tag |-> "meta", attr, key, order, content]                           *)
(*       <meta attr="key" content="content"> (order "key_content") or      *)
(*       <meta content="content" attr="key"> (order "content_key")         *)
(*   [tag |-> "title", text]        <title>text</title>                    *)
(*   [tag |-> "script", type, data] <script type="type">data</script>      *)
(* Tag and attribute names and keys are written in lower case (the         *)
(* patterns are compiled with re.IGNORECASE).                              *)
(***************************************************************************)
FirstIdx(doc, P(_)) ==
    LET hits == {i \in 1..Len(doc) : P(doc[i])}
    IN  IF hits = {} THEN 0 ELSE Min(hits)

\* <meta[^>]+attr=["']key["'][^>]+content=["']([^"']+)["'] and its mirror:
\* the content group needs at least one character
MetaMatch(e, attr, keys, order) ==
    /\ e.tag = "meta" /\ e.attr = attr /\ e.key \in keys /\ e.order = order
    /\ e.content # <<>>

\* m = re.search(key-then-content); if not m: m = re.search(content-then-key)
\* the result is m.group(1), or None when neither pattern matches
SearchMeta(doc, attr, keys) ==
    LET KC(e) == MetaMatch(e, attr, keys, "key_content")
        CK(e) == MetaMatch(e, attr, keys, "content_key")
        a == FirstIdx(doc, KC)
        b == FirstIdx(doc, CK)
    IN  IF a # 0 THEN doc[a].content
        ELSE IF b # 0 THEN doc[b].content ELSE None

extract_og_or_title(doc) ==
    LET og == SearchMeta(doc, "property", {"og:title"})
        m  == IF og # None THEN og ELSE SearchMeta(doc, "name", {"twitter:title"})
        t  == IF m # None THEN strip(m) ELSE <<>>
        IsTitle(e) == e.tag = "title"
        ti == FirstIdx(doc, IsTitle)
        tt == IF ti # 0 THEN CollapseWs(strip(doc[ti].text)) ELSE <<>>
    IN  IF t # <<>> THEN t
        ELSE IF tt # <<>> THEN tt ELSE None

(***************************************************************************)
(* JSON-LD.  The body of a script block is                                 *)
(*   [kind |-> "blank"]  or  [kind |-> "malformed"] (json.loads raises)    *)
(*   [kind |-> "dict", obj, graph]   a JSON object and its "@graph" value  *)
(*   [kind |-> "list", items]        a JSON array                          *)
(*   [kind |-> "scalar"]             any other JSON value                  *)
(* A member of an array is [isdict |-> FALSE] or a JSON object             *)
(*   [isdict |-> TRUE, attype, name]                                       *)
(* with attype the "@type" value ([kind |-> "missing"], [kind |-> "str",   *)
(* v], [kind |-> "list", v]) and name the "name" value ([kind |->          *)
(* "missing"], [kind |-> "str", v], [kind |-> "other"]).                   *)
(***************************************************************************)
IsDict(x) == x.isdict

\* (mutant of Candidates: the @graph members come before the object itself)
Candidates_GraphFirst(data) ==
    IF data.kind = "dict"
    THEN (IF data.graph.kind = "list"
          THEN SelectSeq(data.graph.items, IsDict) ELSE <<>>) \o <<data.obj>>
    ELSE IF data.kind = "list" THEN SelectSeq(data.items, IsDict) ELSE <<>>

Candidates(data) ==
    IF data.kind = "dict"
    THEN <<data.obj>> \o (IF data.graph.kind = "list"
                          THEN SelectSeq(data.graph.items, IsDict) ELSE <<>>)
    ELSE IF data.kind = "list" THEN SelectSeq(data.items, IsDict) ELSE <<>>

\* the stripped name of a candidate that is a Recipe with a non-blank name
RecipeName(obj) ==
    LET t == obj.attype
        types == IF t.kind = "list" THEN t.v
                 ELSE IF t.kind = "str" THEN <<t.v>> ELSE <<>>
        isRecipe == \E i \in 1..Len(types) : types[i] = "Recipe"
    IN  IF isRecipe /\ obj.name.kind = "str" /\ strip(obj.name.v) # <<>>
        THEN strip(obj.name.v) ELSE None

BlockName(data) ==
    LET c == Candidates(data)
        IsHit(o) == RecipeName(o) # None
        i == FirstIdx(c, IsHit)
    IN  IF i = 0 THEN None ELSE RecipeName(c[i])

extract_recipe_name_from_jsonld(doc) ==
    LET Hit(e) == /\ e.tag = "script" /\ e.type = "application/ld+json"
                  /\ e.data.kind \notin {"blank", "malformed"}
                  /\ BlockName(e.data) # None
        i == FirstIdx(doc, Hit)
    IN  IF i = 0 THEN None ELSE BlockName(doc[i].data)

(***************************************************************************)
(* get_og_title after the fetch (src/app.py 362-378)                       *)
(***************************************************************************)
FallbackMax == 80

\* (mutant of RawTitle: the meta tags are read before the structured data)
RawTitle_MetaFirst(doc) ==
    LET t == extract_og_or_title(doc)
    IN  IF Truthy(t) THEN t ELSE extract_recipe_name_from_jsonld(doc)

\* title = extract_recipe_name_from_jsonld(html)
\* if not title: title = extract_og_or_title(html)
RawTitle(doc) ==
    LET t == extract_recipe_name_from_jsonld(doc)
    IN  IF Truthy(t) THEN t ELSE extract_og_or_title(doc)

\* (mutant of TitleFallback: no upper limit on the fallback)
TitleFallback_NoMax(t) ==
    LET u == IF Truthy(t) THEN strip(t) ELSE <<>>
    IN  IF TitleMin <= Len(u) THEN u ELSE None

\* title = (title or "").strip(); return it if 2 <= len(title) <= 80
TitleFallback(t) ==
    LET u == IF Truthy(t) THEN strip(t) ELSE <<>>
    IN  IF TitleMin <= Len(u) /\ Len(u) <= FallbackMax THEN u ELSE None

TitleOfHtml(doc) ==
    LET t == RawTitle(doc)
        c == clean_dish_title(IF Truthy(t) THEN t ELSE <<>>)
    IN  IF Truthy(c) THEN c ELSE TitleFallback(t)

(***************************************************************************)
(* str.lower() on the ASCII letters (no other character of the model has   *)
(* a lower-case form)                                                      *)
(***************************************************************************)
Uppers == <<"A", "B", "C", "D", "E", "F", "G", "H", "I", "J", "K", "L", "M",
            "N", "O", "P", "Q", "R", "S", "T", "U", "V", "W", "X", "Y", "Z">>
Lowers == <<"a", "b", "c", "d", "e", "f", "g", "h", "i", "j", "k", "l", "m",
            "n", "o", "p", "q", "r", "s", "t", "u", "v", "w", "x", "y", "z">>

LowerChar(c) ==
    IF \E i \in 1..Len(Uppers) : Uppers[i] = c
    THEN Lowers[CHOOSE i \in 1..Len(Uppers) : Uppers[i] = c]
    ELSE c

Lower(s) == [i \in 1..Len(s) |-> LowerChar(s[i])]

(***************************************************************************)
(* _is_safe_public_http_url (src/app.py 111-134)                           *)
(*                                                                         *)
(* A URL string is what urlparse reads from it: [bad, scheme, host], bad   *)
(* when urlparse raises ValueError, scheme and host as they are written.   *)
(* A DNS answer is [ok |-> FALSE] (gethostbyname raises) or [ok |-> TRUE,  *)
(* ip |-> ...] with the five ipaddress properties of the address.          *)
(***************************************************************************)
\* urlparse(url): scheme and hostname are lower-cased, an absent host is None
Urlparse(u) ==
    [scheme   |-> Lower(u.scheme),
     hostname |-> IF u.host = <<>> THEN None ELSE Lower(u.host)]

HttpSchemes == {<<"h", "t", "t", "p">>, <<"h", "t", "t", "p", "s">>}
Localhost   == <<"l", "o", "c", "a", "l", "h", "o", "s", "t">>

\* (mutant of UrlBody: the link-local test is missing)
UrlBody_NoLinkLocal(u, ans) ==
    IF u.bad THEN "raise"
    ELSE LET p == Urlparse(u)
         IN  IF p.scheme \notin HttpSchemes THEN "False"
             ELSE IF p.hostname = None THEN "False"
             ELSE IF p.hostname = Localhost THEN "False"
             ELSE IF ~ans.ok THEN "raise"
             ELSE IF \/ ans.ip.is_private \/ ans.ip.is_loopback
                     \/ ans.ip.is_reserved \/ ans.ip.is_multicast
                  THEN "False"
                  ELSE "True"

\* the try block: what it returns, or "raise"
UrlBody(u, ans) ==
    IF u.bad THEN "raise"
    ELSE LET p == Urlparse(u)
         IN  IF p.scheme \notin HttpSchemes THEN "False"
             ELSE IF p.hostname = None THEN "False"
             ELSE IF p.hostname = Localhost THEN "False"
             ELSE IF ~ans.ok THEN "raise"
             ELSE IF \/ ans.ip.is_private \/ ans.ip.is_loopback
                     \/ ans.ip.is_link_local \/ ans.ip.is_reserved
                     \/ ans.ip.is_multicast
                  THEN "False"
                  ELSE "True"

\* except Exception: return False
_is_safe_public_http_url(u, ans) == UrlBody(u, ans) = "True"

(***************************************************************************)
(* The fixed categories (src/app.py 43-65) and normalize_category (93-105) *)
(***************************************************************************)
\* the "key" of each entry of CATEGORIES, in order
CATEGORIES == <<
    <<"h_go", "h_ha", "h_n", "nakaten", "j_don">>,   \* ごはん・丼
    <<"k_pa", "k_su", "k_ta">>,   \* パスタ
    <<"j_men">>,   \* 麺
    <<"k_pa", "k_n">>,   \* パン
    <<"h_o", "j_niku">>,   \* お肉
    <<"h_o", "j_sakana">>,   \* お魚
    <<"j_tamago", "nakaten", "j_mame">>,   \* 卵・豆
    <<"h_o", "h_ka", "h_zu">>,   \* おかず
    <<"k_sa", "k_ra", "k_da">>,   \* サラダ
    <<"k_su", "k_choon", "k_pu">>,   \* スープ
    <<"j_asa", "h_go", "h_ha", "h_n">>,   \* 朝ごはん
    <<"h_o", "j_ben", "j_tou">>,   \* お弁当
    <<"j_saku", "h_ri", "j_oki", "h_ki">>,   \* 作り置き
    <<"h_o", "h_tsu", "h_ma", "h_mi">>,   \* おつまみ
    <<"k_su", "k_i", "k_choon", "k_tsu">>,   \* スイーツ
    <<"h_o", "h_ya", "h_tsu">>,   \* おやつ
    <<"j_nabe">>,   \* 鍋
    <<"k_do", "k_ri", "k_n", "k_ku">>,   \* ドリンク
    <<"h_so", "h_no", "j_hoka">> >>   \* その他

CATEGORY_KEYS == {CATEGORIES[i] : i \in 1..Len(CATEGORIES)}

OTHER_CATEGORY == \* その他
    <<"h_so", "h_no", "j_hoka">>

\* (s or "").replace("\u3000", " ").strip()
normalize_spaces(s) ==
    LET t == IF s = None THEN <<>> ELSE s
    IN  strip([i \in 1..Len(t) |-> IF t[i] = "U+3000" THEN " " ELSE t[i]])

\* (mutant of normalize_category: the input is returned as it is)
normalize_category_Raw(cat) == IF cat = None THEN <<>> ELSE cat

normalize_category(cat) ==
    LET c == normalize_spaces(cat)
    IN  IF c \in CATEGORY_KEYS THEN c ELSE OTHER_CATEGORY

(***************************************************************************)
(* guess_category_from_text (src/app.py 387-428)                           *)
(***************************************************************************)
DEFAULT_CATEGORY == \* おかず
    <<"h_o", "h_ka", "h_zu">>

\* the if statements of lines 390-426, in order
RULES == <<
    \* line 390: パスタ スパゲ カルボナーラ ボロネーゼ ペペロン -> パスタ
    [kws |-> <<<<"k_pa", "k_su", "k_ta">>,
              <<"k_su", "k_pa", "k_ge">>,
              <<"k_ka", "k_ru", "k_bo", "k_na", "k_choon", "k_ra">>,
              <<"k_bo", "k_ro", "k_ne", "k_choon", "k_ze">>,
              <<"k_pe", "k_pe", "k_ro", "k_n">>>>,
     label |-> <<"k_pa", "k_su", "k_ta">>],
    \* line 392: うどん そば ラーメン そうめん 焼きそば 麺 -> 麺
    [kws |-> <<<<"h_u", "h_do", "h_n">>,
              <<"h_so", "h_ba">>,
              <<"k_ra", "k_choon", "k_me", "k_n">>,
              <<"h_so", "h_u", "h_me", "h_n">>,
              <<"j_yaki", "h_ki", "h_so", "h_ba">>,
              <<"j_men">>>>,
     label |-> <<"j_men">>],
    \* line 394: 丼 チャーハン 炊き込み おにぎり カレー リゾット -> ごはん・丼
    [kws |-> <<<<"j_don">>,
              <<"k_chi", "k_xya", "k_choon", "k_ha", "k_n">>,
              <<"j_taku", "h_ki", "j_komi", "h_mi">>,
              <<"h_o", "h_ni", "h_gi", "h_ri">>,
              <<"k_ka", "k_re", "k_choon">>,
              <<"k_ri", "k_zo", "k_xtsu", "k_to">>>>,
     label |-> <<"h_go", "h_ha", "h_n", "nakaten", "j_don">>],
    \* line 396: パン トースト サンド ホットサンド -> パン
    [kws |-> <<<<"k_pa", "k_n">>,
              <<"k_to", "k_choon", "k_su", "k_to">>,
              <<"k_sa", "k_n", "k_do">>,
              <<"k_ho", "k_xtsu", "k_to", "k_sa", "k_n", "k_do">>>>,
     label |-> <<"k_pa", "k_n">>],
    \* line 399: ケーキ プリン パフェ タルト アイス ブラウニー クレープ -> スイーツ
    [kws |-> <<<<"k_ke", "k_choon", "k_ki">>,
              <<"k_pu", "k_ri", "k_n">>,
              <<"k_pa", "k_fu", "k_xe">>,
              <<"k_ta", "k_ru", "k_to">>,
              <<"k_a", "k_i", "k_su">>,
              <<"k_bu", "k_ra", "k_u", "k_ni", "k_choon">>,
              <<"k_ku", "k_re", "k_choon", "k_pu">>>>,
     label |-> <<"k_su", "k_i", "k_choon", "k_tsu">>],
    \* line 401: クッキー ドーナツ マフィン スコーン おやつ -> おやつ
    [kws |-> <<<<"k_ku", "k_xtsu", "k_ki", "k_choon">>,
              <<"k_do", "k_choon", "k_na", "k_tsu">>,
              <<"k_ma", "k_fu", "k_xi", "k_n">>,
              <<"k_su", "k_ko", "k_choon", "k_n">>,
              <<"h_o", "h_ya", "h_tsu">>>>,
     label |-> <<"h_o", "h_ya", "h_tsu">>],
    \* line 404: スープ 味噌汁 みそ汁 ポタージュ シチュー -> スープ
    [kws |-> <<<<"k_su", "k_choon", "k_pu">>,
              <<"j_aji", "j_so", "j_shiru">>,
              <<"h_mi", "h_so", "j_shiru">>,
              <<"k_po", "k_ta", "k_choon", "k_ji", "k_xyu">>,
              <<"k_shi", "k_chi", "k_xyu", "k_choon">>>>,
     label |-> <<"k_su", "k_choon", "k_pu">>],
    \* line 406: 鍋 しゃぶ すき焼 キムチ鍋 もつ鍋 -> 鍋
    [kws |-> <<<<"j_nabe">>,
              <<"h_shi", "h_xya", "h_bu">>,
              <<"h_su", "h_ki", "j_yaki">>,
              <<"k_ki", "k_mu", "k_chi", "j_nabe">>,
              <<"h_mo", "h_tsu", "j_nabe">>>>,
     label |-> <<"j_nabe">>],
    \* line 409: サラダ -> サラダ
    [kws |-> <<<<"k_sa", "k_ra", "k_da">>>>,
     label |-> <<"k_sa", "k_ra", "k_da">>],
    \* line 412: 弁当 お弁当 -> お弁当
    [kws |-> <<<<"j_ben", "j_tou">>,
              <<"h_o", "j_ben", "j_tou">>>>,
     label |-> <<"h_o", "j_ben", "j_tou">>],
    \* line 414: 作り置き つくりおき 常備菜 -> 作り置き
    [kws |-> <<<<"j_saku", "h_ri", "j_oki", "h_ki">>,
              <<"h_tsu", "h_ku", "h_ri", "h_o", "h_ki">>,
              <<"j_jou", "j_bi", "j_sai">>>>,
     label |-> <<"j_saku", "h_ri", "j_oki", "h_ki">>],
    \* line 416: 朝 モーニング 朝ごはん -> 朝ごはん
    [kws |-> <<<<"j_asa">>,
              <<"k_mo", "k_choon", "k_ni", "k_n", "k_gu">>,
              <<"j_asa", "h_go", "h_ha", "h_n">>>>,
     label |-> <<"j_asa", "h_go", "h_ha", "h_n">>],
    \* line 418: つまみ おつまみ -> おつまみ
    [kws |-> <<<<"h_tsu", "h_ma", "h_mi">>,
              <<"h_o", "h_tsu", "h_ma", "h_mi">>>>,
     label |-> <<"h_o", "h_tsu", "h_ma", "h_mi">>],
    \* line 421: 鶏 豚 牛 ひき肉 から揚げ 唐揚げ ハンバーグ 生姜焼 -> お肉
    [kws |-> <<<<"j_tori">>,
              <<"j_buta">>,
              <<"j_gyu">>,
              <<"h_hi", "h_ki", "j_niku">>,
              <<"h_ka", "h_ra", "j_age", "h_ge">>,
              <<"j_kara", "j_age", "h_ge">>,
              <<"k_ha", "k_n", "k_ba", "k_choon", "k_gu">>,
              <<"j_nama", "j_kyou", "j_yaki">>>>,
     label |-> <<"h_o", "j_niku">>],
    \* line 423: 鮭 さけ サーモン 鯖 さば ぶり 鯛 あじ いわし -> お魚
    [kws |-> <<<<"j_sake">>,
              <<"h_sa", "h_ke">>,
              <<"k_sa", "k_choon", "k_mo", "k_n">>,
              <<"j_saba">>,
              <<"h_sa", "h_ba">>,
              <<"h_bu", "h_ri">>,
              <<"j_tai">>,
              <<"h_a", "h_ji">>,
              <<"h_i", "h_wa", "h_shi">>>>,
     label |-> <<"h_o", "j_sakana">>],
    \* line 425: 卵 たまご 豆腐 納豆 大豆 厚揚げ -> 卵・豆
    [kws |-> <<<<"j_tamago">>,
              <<"h_ta", "h_ma", "h_go">>,
              <<"j_mame", "j_fu">>,
              <<"j_natsu", "j_mame">>,
              <<"j_dai", "j_mame">>,
              <<"j_atsu", "j_age", "h_ge">>>>,
     label |-> <<"j_tamago", "nakaten", "j_mame">>] >>

\* k in t
Contains(t, k) ==
    \E i \in 0..(Len(t) - Len(k)) : SubSeq(t, i + 1, i + Len(k)) = k

\* any(k in t for k in kws)
AnyIn(t, kws) == \E j \in 1..Len(kws) : Contains(t, kws[j])

\* (mutant of FirstRule: the last matching rule wins)
FirstRule_Last(t, i) ==
    LET hits == {j \in i..Len(RULES) : AnyIn(t, RULES[j].kws)}
    IN  IF hits = {} THEN Len(RULES) + 1 ELSE CHOOSE j \in hits : \A k \in hits : k <= j

\* the first if statement from the i-th on whose test holds (Len(RULES) + 1: none)
RECURSIVE FirstRule(_, _)
FirstRule(t, i) ==
    IF i > Len(RULES) THEN i
    ELSE IF AnyIn(t, RULES[i].kws) THEN i ELSE FirstRule(t, i + 1)

guess_category_from_text(txt) ==
    LET t == Lower(IF Truthy(txt) THEN txt ELSE <<>>)
        i == FirstRule(t, 1)
    IN  IF i > Len(RULES) THEN DEFAULT_CATEGORY ELSE RULES[i].label

(***************************************************************************)
(* Specification SpecClean: clean_dish_title applied to a raw title, and   *)
(* applied again to its own result.                                        *)
(***************************************************************************)
MaxPieces == 3

\* レシピ, 作り方, 簡単, カレー, さん, and ASCII pieces
Pieces == {
    <<"k_re", "k_shi", "k_pi">>,
    <<"j_saku", "h_ri", "j_kata">>,
    <<"j_kan", "j_tan">>,
    <<"k_ka", "k_re", "k_choon">>,
    <<"h_sa", "h_n">>,
    <<" ">>, <<"-">>, <<"(", "a", ")">>, <<"b", "y">>, <<"x">>,
    <<"B", "a">>, <<" ", "f", "o", "o", "d">> }

RECURSIVE Flatten(_)
Flatten(ps) == IF ps = <<>> THEN <<>> ELSE Head(ps) \o Flatten(Tail(ps))

RawTitles == {Flatten(ps) : ps \in UNION {[1..n -> Pieces] : n \in 0..MaxPieces}}

CleanIdle == raw = Unset /\ cleaned = Unset /\ recleaned = Unset
PageIdle  == html = Unset /\ jsonldName = Unset /\ metaTitle = Unset
             /\ cleanedTitle = Unset /\ title = Unset
UrlIdle   == url = Unset /\ dns = Unset /\ safe = Unset
CatIdle   == text = Unset /\ category = Unset /\ normalized = Unset
SysIdle   == cache = Unset /\ call = Unset /\ hist = Unset /\ prev = Unset
MetaIdle  == response = Unset
ImgIdle   == pageUrl = Unset /\ imageHtml = Unset /\ image = Unset
DbIdle    == rows = Unset /\ req = Unset /\ reply = Unset
OtherIdle == MetaIdle /\ ImgIdle /\ DbIdle
otherVars == <<metaVars, imgVars, dbVars>>

InitClean ==
    /\ raw \in RawTitles
    /\ cleaned = Unset /\ recleaned = Unset
    /\ PageIdle /\ UrlIdle /\ CatIdle /\ SysIdle /\ OtherIdle

Clean ==
    /\ cleaned = Unset
    /\ cleaned' = clean_dish_title(raw)
    /\ UNCHANGED <<raw, recleaned, pageVars, urlVars, catVars, sysVars, otherVars>>

Reclean ==
    /\ cleaned \notin {Unset, None}
    /\ recleaned = Unset
    /\ recleaned' = clean_dish_title(cleaned)
    /\ UNCHANGED <<raw, cleaned, pageVars, urlVars, catVars, sysVars, otherVars>>

NextClean == Clean \/ Reclean

SpecClean == InitClean /\ [][NextClean]_vars

(***************************************************************************)
(* Specification SpecPage: the title pipeline applied to one fetched page. *)
(***************************************************************************)
MaxElems == 2

NameKaraage    == \* 鶏の唐揚げ
    <<"j_tori", "h_no", "j_kara", "j_age", "h_ge">>
OgKaraage      == \* から揚げレシピ | Foo Blog
    <<"h_ka", "h_ra", "j_age", "h_ge", "k_re", "k_shi", "k_pi", " ", "|", " ", "F", "o", "o", " ", "B", "l", "o", "g">>
TitleCarbonara == \* カルボナーラの作り方 - クックパッド
    <<"k_ka", "k_ru", "k_bo", "k_na", "k_choon", "k_ra", "h_no", "j_saku", "h_ri", "j_kata", " ", "-", " ", "k_ku", "k_xtsu", "k_ku", "k_pa", "k_xtsu", "k_do">>
Carbonara      == \* カルボナーラ
    <<"k_ka", "k_ru", "k_bo", "k_na", "k_choon", "k_ra">>
Pasta          == \* パスタ
    <<"k_pa", "k_su", "k_ta">>
Curry          == \* カレー
    <<"k_ka", "k_re", "k_choon">>
Blank          == <<" ">>
LongTitle      == Rep("x", TitleMax + 1)
TooLongTitle   == Rep("x", FallbackMax + 1)

Meta(attr, key, order, content) ==
    [tag |-> "meta", attr |-> attr, key |-> key, order |-> order, content |-> content]
TitleTag(t) == [tag |-> "title", text |-> t]
Script(type, data) == [tag |-> "script", type |-> type, data |-> data]

Recipe(name)  == [isdict |-> TRUE, attype |-> [kind |-> "str", v |-> "Recipe"],
                  name |-> [kind |-> "str", v |-> name]]
Article       == [isdict |-> TRUE, attype |-> [kind |-> "str", v |-> "Article"],
                  name |-> [kind |-> "str", v |-> Curry]]
TypedList(name) == [isdict |-> TRUE,
                    attype |-> [kind |-> "list", v |-> <<"Thing", "Recipe">>],
                    name |-> [kind |-> "str", v |-> name]]
Nameless      == [isdict |-> TRUE, attype |-> [kind |-> "str", v |-> "Recipe"],
                  name |-> [kind |-> "missing"]]
NonDict       == [isdict |-> FALSE]
JDict(obj)    == [kind |-> "dict", obj |-> obj, graph |-> [kind |-> "missing"]]
JGraph(obj, items) ==
    [kind |-> "dict", obj |-> obj, graph |-> [kind |-> "list", items |-> items]]
JList(items)  == [kind |-> "list", items |-> items]
LdJson(data)  == Script("application/ld+json", data)

Elems == {
    Meta("property", "og:title", "key_content", OgKaraage),
    Meta("property", "og:title", "content_key", Pasta),
    Meta("property", "og:title", "key_content", Blank),
    Meta("property", "og:title", "key_content", LongTitle),
    Meta("property", "og:title", "key_content", <<>>),
    Meta("name", "og:title", "key_content", Curry),
    Meta("name", "twitter:title", "key_content", Curry),
    Meta("name", "twitter:title", "content_key", Pasta),
    TitleTag(TitleCarbonara),
    TitleTag(<<"\n", " ", "x", " ", "\n", "y", " ">>),
    TitleTag(<<"\n", " ">>),
    LdJson(JDict(Recipe(NameKaraage))),
    LdJson(JDict(Recipe(TooLongTitle))),
    LdJson(JDict(Recipe(Blank))),
    LdJson([kind |-> "malformed"]),
    LdJson(JGraph(Article, <<NonDict, Nameless, TypedList(<<" ">> \o Pasta)>>)),
    LdJson(JList(<<NonDict, Article, Recipe(Curry)>>)),
    LdJson(JGraph(Recipe(Carbonara), <<Recipe(Blank), Recipe(Pasta)>>)),
    Script("text/javascript", JDict(Recipe(Pasta))) }

Docs == UNION {[1..n -> Elems] : n \in 0..MaxElems}

InitPage ==
    /\ html \in Docs
    /\ jsonldName = Unset /\ metaTitle = Unset
    /\ cleanedTitle = Unset /\ title = Unset
    /\ CleanIdle /\ UrlIdle /\ CatIdle /\ SysIdle /\ OtherIdle

ExtractJsonld ==
    /\ jsonldName = Unset
    /\ jsonldName' = extract_recipe_name_from_jsonld(html)
    /\ UNCHANGED <<html, metaTitle, cleanedTitle, title,
                   cleanVars, urlVars, catVars, sysVars, otherVars>>

ExtractMeta ==
    /\ metaTitle = Unset
    /\ metaTitle' = extract_og_or_title(html)
    /\ UNCHANGED <<html, jsonldName, cleanedTitle, title,
                   cleanVars, urlVars, catVars, sysVars, otherVars>>

\* lines 362-378 of get_og_title, on the decoded page
GetTitle ==
    /\ title = Unset
    /\ LET t == RawTitle(html)
       IN  cleanedTitle' = clean_dish_title(IF Truthy(t) THEN t ELSE <<>>)
    /\ title' = TitleOfHtml(html)
    /\ UNCHANGED <<html, jsonldName, metaTitle,
                   cleanVars, urlVars, catVars, sysVars, otherVars>>

\* (mutant of meta: the classifier is run only on a title that is there)
meta_TitleOnly(t) ==
    [title |-> t, category |-> IF t = None THEN None ELSE guess_category_from_text(t)]

\* the body of /meta (src/app.py 436-438) for the title get_og_title returned
meta(t) ==
    [title |-> t, category |-> guess_category_from_text(IF Truthy(t) THEN t ELSE <<>>)]

\* GET /meta answers once get_og_title has returned: status 200 and the body
MetaResponse ==
    /\ title # Unset /\ response = Unset
    /\ response' = <<200, meta(title)>>
    /\ UNCHANGED <<pageVars, cleanVars, urlVars, catVars, sysVars, imgVars, dbVars>>

NextPage == ExtractJsonld \/ ExtractMeta \/ GetTitle \/ MetaResponse

SpecPage == InitPage /\ [][NextPage]_vars

(***************************************************************************)
(* Specification SpecUrl: the validator on one URL and one DNS answer.     *)
(***************************************************************************)
Schemes == HttpSchemes \cup {<<"H", "T", "T", "P">>, <<"f", "t", "p">>,
                             <<"f", "i", "l", "e">>, <<>>}
Hosts   == {<<>>, Localhost, <<"L", "o", "c", "a", "l", "H", "o", "s", "t">>,
            <<"a", ".", "j", "p">>, <<"1", "0", ".", "1", ".", "2", ".", "3">>}
Urls    == [bad : BOOLEAN, scheme : Schemes, host : Hosts]

IpFlags == [is_private : BOOLEAN, is_loopback : BOOLEAN, is_link_local : BOOLEAN,
            is_reserved : BOOLEAN, is_multicast : BOOLEAN]
NoAnswer   == [ok |-> FALSE]
DnsAnswers == {NoAnswer} \cup {[ok |-> TRUE, ip |-> f] : f \in IpFlags}

InitUrl ==
    /\ url \in Urls /\ dns \in DnsAnswers /\ safe = Unset
    /\ CleanIdle /\ PageIdle /\ CatIdle /\ SysIdle /\ OtherIdle

\* the bool a call returned, as the driver stores it
PyBool(b) == IF b THEN <<"True">> ELSE <<"False">>

Validate ==
    /\ safe = Unset
    /\ safe' = PyBool(_is_safe_public_http_url(url, dns))
    /\ UNCHANGED <<url, dns, cleanVars, pageVars, catVars, sysVars, otherVars>>

NextUrl == Validate

SpecUrl == InitUrl /\ [][NextUrl]_vars

(***************************************************************************)
(* Specification SpecCat: guess_category_from_text on one text.            *)
(***************************************************************************)
MaxWords == 3

\* カルボナーラ うどん カレー パン ケーキ おやつ 鍋 朝 鶏 卵 の レシピ 謎, Latin, and the two spaces
CatPieces == {
    <<"k_ka", "k_ru", "k_bo", "k_na", "k_choon", "k_ra">>,
    <<"h_u", "h_do", "h_n">>,
    <<"k_ka", "k_re", "k_choon">>,
    <<"k_pa", "k_n">>,
    <<"k_ke", "k_choon", "k_ki">>,
    <<"h_o", "h_ya", "h_tsu">>,
    <<"j_nabe">>,
    <<"j_asa">>,
    <<"j_tori">>,
    <<"j_tamago">>,
    <<"h_no">>,
    <<"k_re", "k_shi", "k_pi">>,
    <<"j_nazo">>,
    <<"X">>,
    <<" ">>,
    <<"U+3000">> }

CatTexts == {None} \cup {Flatten(ps) : ps \in UNION {[1..n -> CatPieces] : n \in 0..MaxWords}}

InitCat ==
    /\ text \in CatTexts /\ category = Unset /\ normalized = Unset
    /\ CleanIdle /\ PageIdle /\ UrlIdle /\ SysIdle /\ OtherIdle

Guess ==
    /\ category = Unset
    /\ category' = guess_category_from_text(text)
    /\ UNCHANGED <<text, normalized, cleanVars, pageVars, urlVars, sysVars, otherVars>>

Normalize ==
    /\ normalized = Unset
    /\ normalized' = normalize_category(text)
    /\ UNCHANGED <<text, category, cleanVars, pageVars, urlVars, sysVars, otherVars>>

NextCat == Guess \/ Normalize

SpecCat == InitCat /\ [][NextCat]_vars

(***************************************************************************)
(* get_og_image on a fetched page (src/app.py 163-197)                     *)
(***************************************************************************)
SchemeChars == {Lowers[i] : i \in 1..Len(Lowers)} \cup {Uppers[i] : i \in 1..Len(Uppers)}
                   \cup {"0", "1", "2", "3", "4", "5", "6", "7", "8", "9", "+", "-", "."}

\* the scheme urlparse reads from a reference, lower-cased; <<>> when it has none
RefScheme(ref) ==
    LET cs == {i \in 1..Len(ref) : ref[i] = ":"}
        i  == IF cs = {} THEN 0 ELSE Min(cs)
    IN  IF i > 1 /\ ref[1] \notin {"0", "1", "2", "3", "4", "5", "6", "7", "8", "9", "+", "-", "."}
               /\ \A j \in 1..(i - 1) : ref[j] \in SchemeChars
        THEN Lower(Take(ref, i - 1)) ELSE <<>>

\* urllib.parse.uses_relative, the members the model can meet
UsesRelative == HttpSchemes \cup {<<"f", "t", "p">>, <<"f", "i", "l", "e">>, <<>>}

\* the network location of a reference after its "//": up to the next "/"
RefNetloc(after) ==
    LET cs == {i \in 1..Len(after) : after[i] = "/"}
    IN  IF cs = {} THEN after ELSE Take(after, Min(cs) - 1)

\* urljoin(page_url, img) for a page at the root path of its host and a
\* reference without dot segments, empty path segments, query or fragment:
\*  - a reference of another scheme, or of a scheme that is not relative, is
\*    returned as it is written;
\*  - a reference with a network location replaces the page's;
\*  - any other reference is a path under the page's host.
urljoin(base, ref) ==
    LET b      == Urlparse(base)
        s      == RefScheme(ref)
        scheme == IF s = <<>> THEN b.scheme ELSE s
        rest   == IF s = <<>> THEN ref ELSE Drop(ref, Len(s) + 1)
        hasNet == StartsWith(rest, <<"/", "/">>)
        netloc == IF hasNet THEN RefNetloc(Drop(rest, 2)) ELSE <<>>
        path   == IF hasNet THEN Drop(rest, 2 + Len(netloc)) ELSE rest
        origin == scheme \o <<":", "/", "/">> \o base.host
    IN  IF scheme # b.scheme \/ scheme \notin UsesRelative THEN ref
        ELSE IF netloc # <<>> THEN scheme \o <<":">> \o rest
        ELSE IF StartsWith(path, <<"/">>) THEN origin \o path
        ELSE origin \o <<"/">> \o path

\* (mutant of ImageOfHtml: the scheme of the resolved URL is not looked at)
ImageOfHtml_NoCheck(base, doc) ==
    LET og == SearchMeta(doc, "property", {"og:image"})
        m  == IF og # None THEN og
              ELSE SearchMeta(doc, "name", {"twitter:image", "twitter:image:src"})
    IN  IF m = None THEN None
        ELSE IF strip(m) = <<>> THEN None ELSE urljoin(base, strip(m))

ImageOfHtml(base, doc) ==
    LET og == SearchMeta(doc, "property", {"og:image"})
        m  == IF og # None THEN og
              ELSE SearchMeta(doc, "name", {"twitter:image", "twitter:image:src"})
    IN  IF m = None THEN None
        ELSE LET img == strip(m)
             IN  IF img = <<>> THEN None
                 ELSE LET j == urljoin(base, img)
                      IN  IF \/ StartsWith(j, <<"h", "t", "t", "p", ":", "/", "/">>)
                             \/ StartsWith(j, <<"h", "t", "t", "p", "s", ":", "/", "/">>)
                          THEN j ELSE None

(***************************************************************************)
(* functools.lru_cache(maxsize) around get_og_title and get_og_image       *)
(* (src/app.py 140, 339).  A cache is the sequence of its entries, least   *)
(* recently used first.                                                    *)
(***************************************************************************)
\* the capacity; 512 in the source, scaled down so that the cache fills
maxsize == 2

Keys(c) == {c[i].key : i \in 1..Len(c)}

IndexOf(c, k) == CHOOSE i \in 1..Len(c) : c[i].key = k

Without(ks, k) == SelectSeq(ks, LAMBDA x : x # k)

\* (mutant of Touch: a hit leaves the order alone, first in first out)
Touch_Fifo(c, k) == c

\* a hit makes the entry the most recently used one
Touch(c, k) ==
    SelectSeq(c, LAMBDA e : e.key # k) \o <<c[IndexOf(c, k)]>>

\* (mutant of IsCached: every lookup misses)
IsCached_Never(c, k) == FALSE

\* the wrapper finds the key
IsCached(c, k) == k \in Keys(c)

\* the key a store drops: the least recently used one of a full cache
Victim(c, k) ==
    IF k \notin Keys(c) /\ Len(c) >= maxsize THEN {c[1].key} ELSE {}

\* (mutant of Insert: the result is not kept)
Insert_NoStore(c, k, v) == c

\* (mutant of Insert: a None result is not kept)
Insert_SkipNone(c, k, v) ==
    IF k \in Keys(c) \/ v = None THEN c
    ELSE IF Len(c) >= maxsize THEN Append(Tail(c), [key |-> k, val |-> v])
    ELSE Append(c, [key |-> k, val |-> v])

\* storing a result: nothing when the key got cached meanwhile, else append,
\* dropping the least recently used entry of a full cache
Insert(c, k, v) ==
    IF k \in Keys(c) THEN c
    ELSE IF Len(c) >= maxsize THEN Append(Tail(c), [key |-> k, val |-> v])
    ELSE Append(c, [key |-> k, val |-> v])

(***************************************************************************)
(* Specification Spec: calls of a cached function, one after the other.    *)
(*                                                                         *)
(* get_og_title and get_og_image are wrapped by two lru_cache objects that *)
(* share nothing, so a behaviour follows one of them, either one: cache.fn *)
(* names the function, cache.entries is its cache.                         *)
(*                                                                         *)
(* The argument page_url is [pad, loc]: loc is the URL as urlparse reads   *)
(* it (the empty string has no scheme and no host), pad tells whether the  *)
(* string carries surrounding whitespace that strip() removes.             *)
(*                                                                         *)
(* hist and prev are history: hist.order lists the keys looked up with a   *)
(* hit or stored, by last use; hist.first holds the first key ever stored; *)
(* hist.evicted the keys ever dropped; hist.completed the arguments of the  *)
(* calls that have returned; prev is the call that returned last; late      *)
(* tells that a call started after a call with its argument had returned.   *)
(* checked and target hold the URL given to the validator and to urlopen,   *)
(* failed tells that the response was one of FailedResponses.               *)
(***************************************************************************)
Threads  == {"t1", "t2"}
Fns      == {"get_og_title", "get_og_image"}

EmptyLoc == [bad |-> FALSE, scheme |-> <<>>, host |-> <<>>]
PubLoc   == [bad |-> FALSE, scheme |-> <<"h", "t", "t", "p">>, host |-> <<"a", ".", "j", "p">>]
\* a string urlparse raises ValueError on, such as http://[::1
BadLoc   == [bad |-> TRUE, scheme |-> <<"h", "t", "t", "p">>, host |-> <<"[", ":", ":", "1">>]

PageUrls == {[pad |-> FALSE, loc |-> EmptyLoc], [pad |-> FALSE, loc |-> PubLoc],
             [pad |-> TRUE, loc |-> PubLoc], [pad |-> FALSE, loc |-> BadLoc]}

\* `not page_url`
IsEmpty(u) == ~u.pad /\ u.loc = EmptyLoc
\* page_url.strip()
StripUrl(u) == [u EXCEPT !.pad = FALSE]

Public   == [ok |-> TRUE, ip |-> [is_private |-> FALSE, is_loopback |-> FALSE,
               is_link_local |-> FALSE, is_reserved |-> FALSE, is_multicast |-> FALSE]]
Loopback == [ok |-> TRUE, ip |-> [is_private |-> FALSE, is_loopback |-> TRUE,
               is_link_local |-> FALSE, is_reserved |-> FALSE, is_multicast |-> FALSE]]
SysDns   == {NoAnswer, Public, Loopback}

RelImage    == <<"/", "k", ".", "p", "n", "g">>
KaraagePage == <<LdJson(JDict(Recipe(NameKaraage))),
                 Meta("property", "og:image", "key_content", RelImage)>>

\* a page whose only markup is an ld+json block that json.loads rejects
MalformedPage == <<LdJson([kind |-> "malformed"])>>
\* a page without any of the markup looked for
BarePage      == <<>>

\* what urlopen gives: an exception (URLError, or socket.timeout after 3 s),
\* a response that is not text/html, or a page
FailedResponses == {[kind |-> "error"], [kind |-> "timeout"], [kind |-> "other"],
                    [kind |-> "html", doc |-> MalformedPage],
                    [kind |-> "html", doc |-> BarePage]}
Responses == FailedResponses \cup {[kind |-> "html", doc |-> KaraagePage]}

\* an exception on its way up (no str is spelled like this)
Raise == <<"raise">>

\* the try block of get_og_title / get_og_image on a response
TryBody(f, u, r) ==
    IF r.kind \in {"error", "timeout"} THEN Raise
    ELSE IF r.kind = "other" THEN None
    ELSE IF f = "get_og_title" THEN TitleOfHtml(r.doc)
    ELSE ImageOfHtml(u.loc, r.doc)

\* (mutant of Result: no except clause)
Result_NoExcept(f, u, r) == TryBody(f, u, r)

\* except Exception: return None
Result(f, u, r) ==
    LET v == TryBody(f, u, r)
    IN  IF v = Raise THEN None ELSE v

Idle == [pc |-> "idle", url |-> [pad |-> FALSE, loc |-> EmptyLoc],
         hit |-> FALSE, validated |-> FALSE, safe |-> FALSE, fetched |-> FALSE,
         failed |-> FALSE, late |-> FALSE, checked |-> <<>>, target |-> <<>>, res |-> None]

Init ==
    /\ cache \in {[fn |-> f, entries |-> <<>>] : f \in Fns}
    /\ call = [t \in Threads |-> Idle]
    /\ hist = [order |-> <<>>, first |-> <<>>, evicted |-> {}, completed |-> {}]
    /\ prev = Idle
    /\ CleanIdle /\ PageIdle /\ UrlIdle /\ CatIdle /\ OtherIdle

\* (mutant of AfterValidate: the request is sent whatever the validator says)
AfterValidate_Always(ok) == "fetch"

\* `if not _is_safe_public_http_url(page_url): return None`
AfterValidate(ok) == IF ok THEN "fetch" ELSE "store"

\* the wrapper looks the argument up: a hit returns the cached value and makes
\* the entry the most recent one, a miss calls the function
Lookup(t, u) ==
    /\ call[t].pc = "idle"
    /\ IF IsCached(cache.entries, u)
       THEN /\ call' = [call EXCEPT ![t] = [Idle EXCEPT !.pc = "done", !.url = u,
                            !.late = u \in hist.completed, !.hit = TRUE,
                            !.res = cache.entries[IndexOf(cache.entries, u)].val]]
            /\ cache' = [cache EXCEPT !.entries = Touch(@, u)]
            /\ hist' = [hist EXCEPT !.order = Append(Without(@, u), u)]
       ELSE /\ call' = [call EXCEPT ![t] = [Idle EXCEPT !.pc = "body", !.url = u,
                            !.late = u \in hist.completed]]
            /\ UNCHANGED <<cache, hist>>
    /\ UNCHANGED <<prev, cleanVars, pageVars, urlVars, catVars, otherVars>>

\* a call made while no other call is in progress
Call(t, u) ==
    /\ \A s \in Threads : call[s].pc = "idle"
    /\ Lookup(t, u)

\* `if not page_url: return None`
ReturnEmpty(t) ==
    /\ call[t].pc = "body" /\ IsEmpty(call[t].url)
    /\ call' = [call EXCEPT ![t].pc = "store", ![t].res = None]
    /\ UNCHANGED <<cache, hist, prev, cleanVars, pageVars, urlVars, catVars, otherVars>>

\* page_url = page_url.strip(); the validator, with the answer DNS gives it
ValidateUrl(t) ==
    /\ call[t].pc = "body" /\ ~IsEmpty(call[t].url)
    /\ \E ans \in SysDns :
         LET s  == StripUrl(call[t].url)
             ok == _is_safe_public_http_url(s.loc, ans)
         IN  call' = [call EXCEPT ![t].validated = TRUE, ![t].checked = <<s>>,
                                  ![t].safe = ok, ![t].pc = AfterValidate(ok),
                                  ![t].res = None]
    /\ UNCHANGED <<cache, hist, prev, cleanVars, pageVars, urlVars, catVars, otherVars>>

\* urlopen(Request(page_url), timeout=3) and the rest of the try block
Fetch(t) ==
    /\ call[t].pc = "fetch"
    /\ \E r \in Responses :
         LET s == StripUrl(call[t].url)
         IN  call' = [call EXCEPT ![t].fetched = TRUE, ![t].target = <<s>>,
                                  ![t].failed = r \in FailedResponses,
                                  ![t].res = Result(cache.fn, s, r),
                                  ![t].pc = "store"]
    /\ UNCHANGED <<cache, hist, prev, cleanVars, pageVars, urlVars, catVars, otherVars>>

\* the wrapper stores the result under the argument as it was passed
Store(t) ==
    /\ call[t].pc = "store"
    /\ LET k == call[t].url
           c == cache.entries
       IN  /\ cache' = [cache EXCEPT !.entries = Insert(c, k, call[t].res)]
           /\ hist' = IF k \in Keys(c) THEN hist
                      ELSE [hist EXCEPT
                              !.order   = Append(Without(@, k), k),
                              !.first   = IF Len(@) = 0 THEN <<k>> ELSE @,
                              !.evicted = @ \cup Victim(c, k)]
    /\ call' = [call EXCEPT ![t].pc = "done"]
    /\ UNCHANGED <<prev, cleanVars, pageVars, urlVars, catVars, otherVars>>

\* the caller gets the value
Return(t) ==
    /\ call[t].pc = "done"
    /\ prev' = call[t]
    /\ call' = [call EXCEPT ![t] = Idle]
    /\ hist' = [hist EXCEPT !.completed = @ \cup {call[t].url}]
    /\ UNCHANGED <<cache, cleanVars, pageVars, urlVars, catVars, otherVars>>

Next ==
    \E t \in Threads :
        \/ \E u \in PageUrls : Call(t, u)
        \/ ReturnEmpty(t)
        \/ ValidateUrl(t)
        \/ Fetch(t)
        \/ Store(t)
        \/ Return(t)

Spec == Init /\ [][Next]_vars

(***************************************************************************)
(* Specification SpecConc: the same calls made by two worker threads at    *)
(* once (the endpoints are sync functions, which the server runs in its    *)
(* thread pool).  A lookup and a store are atomic, as the wrapper holds    *)
(* its lock for each; the function body runs outside the lock.             *)
(***************************************************************************)
ConcUrls == {[pad |-> FALSE, loc |-> EmptyLoc], [pad |-> FALSE, loc |-> PubLoc],
             [pad |-> FALSE, loc |-> BadLoc]}

\* a call made whatever the other thread is doing
CallConc(t, u) == Lookup(t, u)

NextConc ==
    \E t \in Threads :
        \/ \E u \in ConcUrls : CallConc(t, u)
        \/ ReturnEmpty(t)
        \/ ValidateUrl(t)
        \/ Fetch(t)
        \/ Store(t)
        \/ Return(t)

SpecConc == Init /\ [][NextConc]_vars

(***************************************************************************)
(* Specification SpecImage: get_og_image on one fetched page.              *)
(***************************************************************************)
MaxImgElems == 2

ImgBases == {[bad |-> FALSE, scheme |-> sc, host |-> <<"a", ".", "j", "p">>] :
                 sc \in HttpSchemes \cup {<<"H", "T", "T", "P">>}}

\* /k.png  k.png  //i.jp/k.png  https://i.jp/k.png  HTTPS://i.jp/k.png
\* http:k.png  http://  data:x  javascript:1  ftp://i.jp/k, padded and blank
ImgValues == {
    <<"/", "k", ".", "p", "n", "g">>,
    <<"k", ".", "p", "n", "g">>,
    <<"/", "/", "i", ".", "j", "p", "/", "k", ".", "p", "n", "g">>,
    <<"h", "t", "t", "p", "s", ":", "/", "/", "i", ".", "j", "p", "/", "k", ".", "p", "n", "g">>,
    <<"H", "T", "T", "P", "S", ":", "/", "/", "i", ".", "j", "p", "/", "k", ".", "p", "n", "g">>,
    <<"h", "t", "t", "p", ":", "k", ".", "p", "n", "g">>,
    <<"h", "t", "t", "p", ":", "/", "/">>,
    <<"d", "a", "t", "a", ":", "x">>,
    <<"j", "a", "v", "a", "s", "c", "r", "i", "p", "t", ":", "1">>,
    <<"f", "t", "p", ":", "/", "/", "i", ".", "j", "p", "/", "k">>,
    <<" ", "/", "k", ".", "p", "n", "g", " ">>,
    <<" ">> }

ImgElems ==
    {Meta("property", "og:image", "key_content", v) : v \in ImgValues}
        \cup {Meta("property", "og:image", "content_key", <<"/", "c", "k">>),
              Meta("name", "twitter:image", "key_content", <<"/", "t", "w">>),
              Meta("name", "twitter:image:src", "content_key", <<"/", "s", "r", "c">>),
              Meta("name", "og:image", "key_content", <<"/", "n", "o">>),
              Meta("property", "og:title", "key_content", Pasta),
              TitleTag(Curry)}

ImgDocs == UNION {[1..n -> ImgElems] : n \in 0..MaxImgElems}

InitImage ==
    /\ pageUrl \in ImgBases /\ imageHtml \in ImgDocs /\ image = Unset
    /\ CleanIdle /\ PageIdle /\ UrlIdle /\ CatIdle /\ SysIdle /\ MetaIdle /\ DbIdle

\* lines 163-197 of get_og_image, on the decoded page
GetImage ==
    /\ image = Unset
    /\ image' = ImageOfHtml(pageUrl, imageHtml)
    /\ UNCHANGED <<pageUrl, imageHtml, cleanVars, pageVars, urlVars, catVars, sysVars,
                   metaVars, dbVars>>

NextImage == GetImage

SpecImage == InitImage /\ [][NextImage]_vars

(***************************************************************************)
(* Specification SpecDb: the recipe_links table under /add, /edit/{id} and *)
(* /delete/{id} (src/app.py 1233-1333, src/models.py).                     *)
(*                                                                         *)
(* rows is the table, a set of rows [id, url, title, category].  The       *)
(* handlers are sync functions run in the server's thread pool, each with  *)
(* its own session, so a handler can be overtaken between its query and    *)
(* its commit: req is a request followed in two steps (Query*, Commit),    *)
(* and Add, Edit, Delete are requests that run from query to commit while  *)
(* req waits.  A query only reads, so these are all the interleavings of   *)
(* two requests.  reply is the response to req: its msg and, for 'upd' and *)
(* 'dup', the url, title and category its prefill parameters are made of. *)
(***************************************************************************)
MaxId == 3

\* form values: a URL, the same URL after a space, another URL
DbUrls == {<<"a">>, <<" ", "a">>, <<"b">>}

\* form values: a title and a blank one (Form(...) refuses the empty string)
DbTitles == {<<"x">>, <<"U+3000">>}

\* form values: a key, the key between spaces, a string that is no key
DbCategories == {CATEGORIES[2], <<" ">> \o CATEGORIES[2] \o <<" ">>, <<"x">>}

NoReq == [pc |-> "idle", op |-> "none", url |-> <<>>, title |-> <<>>, category |-> <<>>,
          id |-> 0, found |-> {}]

InitDb ==
    /\ rows = {} /\ req = NoReq /\ reply = <<"none">>
    /\ CleanIdle /\ PageIdle /\ UrlIdle /\ CatIdle /\ SysIdle /\ MetaIdle /\ ImgIdle

\* select(RecipeLink).where(RecipeLink.url == url) ... scalar_one_or_none()
Existing(rs, u) == {r \in rs : r.url = u}

\* db.get(RecipeLink, item_id)
ById(rs, i) == {r \in rs : r.id = i}

\* the INTEGER PRIMARY KEY SQLite gives a new row: the largest id plus one
NextId(rs) ==
    IF rs = {} THEN 1
    ELSE (CHOOSE i \in {r.id : r \in rs} : \A r \in rs : r.id <= i) + 1

\* (mutant of UniqueViolation: the url column has no unique index)
UniqueViolation_Never(rs, u) == FALSE

\* unique=True on RecipeLink.url: an INSERT of a stored url fails
UniqueViolation(rs, u) == \E r \in rs : r.url = u

\* the first three statements of add
AddForm(u, t, c) ==
    [NoReq EXCEPT !.op = "add", !.url = normalize_spaces(u),
                  !.title = normalize_spaces(t), !.category = normalize_category(c)]

\* (mutant of EditForm: the category is stored as normalize_spaces leaves it)
EditForm_Raw(i, t, c) ==
    [NoReq EXCEPT !.op = "edit", !.id = i,
                  !.title = normalize_spaces(t), !.category = normalize_spaces(c)]

\* the first two statements of edit_item
EditForm(i, t, c) ==
    [NoReq EXCEPT !.op = "edit", !.id = i,
                  !.title = normalize_spaces(t), !.category = normalize_category(c)]

DeleteForm(i) == [NoReq EXCEPT !.op = "delete", !.id = i]

\* the handler's query, on the table as it is then
Query(rs, f) ==
    [f EXCEPT !.pc = "queried",
              !.found = IF f.op = "add" THEN Existing(rs, f.url) ELSE ById(rs, f.id)]

\* UPDATE recipe_links SET ... WHERE id = e.id, for the columns the handler gave
\* a new value
Update(rs, e, setT, t, setC, c) ==
    {IF r.id = e.id
     THEN [r EXCEPT !.title = IF setT THEN t ELSE @, !.category = IF setC THEN c ELSE @]
     ELSE r : r \in rs}

\* RedirectResponse(url=f"/?msg={m}&prefill_url=...&prefill_title=...")
Prefill(m, f) == <<m, f.url, f.title, f.category>>

\* the rest of add, from `try:`; the row looked up may be gone at the commit
\* (the UPDATE matches no row: StaleDataError, which is no IntegrityError)
AddCommit(rs, f) ==
    IF f.found # {}
    THEN LET e    == CHOOSE r \in f.found : TRUE
             setT == f.title # <<>> /\ e.title # f.title
             setC == f.category # <<>> /\ e.category # f.category
         IN  IF ~(setT \/ setC) THEN [rows |-> rs, msg |-> Prefill("dup", f)]
             ELSE IF ById(rs, e.id) = {} THEN [rows |-> rs, msg |-> <<"error">>]
             ELSE [rows |-> Update(rs, e, setT, f.title, setC, f.category),
                   msg |-> Prefill("upd", f)]
    ELSE IF UniqueViolation(rs, f.url) THEN [rows |-> rs, msg |-> Prefill("dup", f)]
    ELSE [rows |-> rs \cup {[id |-> NextId(rs), url |-> f.url, title |-> f.title,
                             category |-> f.category]},
          msg |-> <<"ok">>]

\* the rest of edit_item: an assignment of the value a column already has is
\* no change, and a commit without changes writes nothing
EditCommit(rs, f) ==
    IF f.found = {} THEN [rows |-> rs, msg |-> <<"editok">>]
    ELSE LET e    == CHOOSE r \in f.found : TRUE
             setT == e.title # f.title
             setC == e.category # f.category
         IN  IF ~(setT \/ setC) THEN [rows |-> rs, msg |-> <<"editok">>]
             ELSE IF ById(rs, e.id) = {} THEN [rows |-> rs, msg |-> <<"error">>]
             ELSE [rows |-> Update(rs, e, setT, f.title, setC, f.category),
                   msg |-> <<"editok">>]

\* the rest of delete_item: DELETE ... WHERE id = e.id (a DELETE that matches
\* no row is a warning only)
DeleteCommit(rs, f) ==
    IF f.found = {} THEN [rows |-> rs, msg |-> <<"del">>]
    ELSE LET e == CHOOSE r \in f.found : TRUE
         IN  [rows |-> {r \in rs : r.id # e.id}, msg |-> <<"del">>]

Outcome(rs, f) ==
    IF f.op = "add" THEN AddCommit(rs, f)
    ELSE IF f.op = "edit" THEN EditCommit(rs, f)
    ELSE DeleteCommit(rs, f)

\* a handler run from its query to its response
Handle(f) ==
    LET o == Outcome(rows, Query(rows, f))
    IN  /\ \A r \in o.rows : r.id <= MaxId
        /\ rows' = o.rows
        /\ UNCHANGED <<req, reply, cleanVars, pageVars, urlVars, catVars, sysVars, metaVars, imgVars>>

\* a handler up to its query
Begin(f) ==
    /\ req.pc = "idle"
    /\ req' = Query(rows, f)
    /\ reply' = <<"none">>
    /\ UNCHANGED <<rows, cleanVars, pageVars, urlVars, catVars, sysVars, metaVars, imgVars>>

Add(u, t, c) ==
    /\ u \in DbUrls
    /\ Handle(AddForm(u, t, c))

Edit(i, t, c) ==
    /\ i \in 1..MaxId
    /\ Handle(EditForm(i, t, c))

Delete(i) ==
    /\ i \in 1..MaxId
    /\ Handle(DeleteForm(i))

QueryAdd(u, t, c) ==
    /\ u \in DbUrls
    /\ Begin(AddForm(u, t, c))

QueryEdit(i, t, c) ==
    /\ i \in 1..MaxId
    /\ Begin(EditForm(i, t, c))

QueryDelete(i) ==
    /\ i \in 1..MaxId
    /\ Begin(DeleteForm(i))

\* the handler that was overtaken goes on after its query
Commit ==
    /\ req.pc = "queried"
    /\ LET o == Outcome(rows, req)
       IN  /\ \A r \in o.rows : r.id <= MaxId
           /\ rows' = o.rows
           /\ reply' = o.msg
    /\ req' = NoReq
    /\ UNCHANGED <<cleanVars, pageVars, urlVars, catVars, sysVars, metaVars, imgVars>>

NextDb ==
    \/ \E u \in DbUrls, t \in DbTitles, c \in DbCategories : Add(u, t, c)
    \/ \E i \in 1..MaxId, t \in DbTitles, c \in DbCategories : Edit(i, t, c)
    \/ \E i \in 1..MaxId : Delete(i)
    \/ \E u \in DbUrls, t \in DbTitles, c \in DbCategories : QueryAdd(u, t, c)
    \/ \E i \in 1..MaxId, t \in DbTitles, c \in DbCategories : QueryEdit(i, t, c)
    \/ \E i \in 1..MaxId : QueryDelete(i)
    \/ Commit

SpecDb == InitDb /\ [][NextDb]_vars

(***************************************************************************)
(* Claims about clean_dish_title and the title pipeline                    *)
(***************************************************************************)

\* C1 as stated: the title get_og_title returns, when it is not None, is
\* 2 to 60 characters long.
C1_TitleLen60 ==
    title \notin {Unset, None} => TitleMin <= Len(title) /\ Len(title) <= TitleMax

\* C1 (amended): the title get_og_title returns, when it is not None, is 2
\* to 80 characters long, and it is longer than 60 characters only when
\* clean_dish_title rejected the raw title (the uncleaned fallback).
C1_TitleLen80 ==
    title \notin {Unset, None} =>
        /\ TitleMin <= Len(title) /\ Len(title) <= FallbackMax
        /\ Len(title) > TitleMax => cleanedTitle = None

\* a page whose returned title is the uncleaned fallback of more than 60 characters
C1_Witness ==
    title \notin {Unset, None} /\ Len(title) > TitleMax /\ cleanedTitle = None

\* C2: the page whose only title source is
\* <title>カルボナーラの作り方 - クックパッド</title> gives that text from the
\* <title> fallback and "カルボナーラ" after clean_dish_title.
C2_Page == <<TitleTag(TitleCarbonara)>>

C2_FallbackCarbonara ==
    (html = C2_Page /\ metaTitle # Unset /\ title # Unset) =>
        metaTitle = TitleCarbonara /\ cleanedTitle = Carbonara

\* C3: clean_dish_title applied to one of its own results returns that
\* result again.
C3_Idempotent == recleaned # Unset => recleaned = cleaned

\* C8: when the page holds a JSON-LD Recipe object with a non-blank name, the
\* title is the one the page gives with every <meta> and <title> tag removed,
\* and the page with Recipe name 鶏の唐揚げ and og:title
\* "から揚げレシピ | Foo Blog" gives 鶏の唐揚げ.
C8_IsRecipeWithName(o) ==
    /\ o.isdict
    /\ \/ o.attype.kind = "str" /\ o.attype.v = "Recipe"
       \/ o.attype.kind = "list" /\ \E i \in 1..Len(o.attype.v) : o.attype.v[i] = "Recipe"
    /\ o.name.kind = "str"
    /\ \E i \in 1..Len(o.name.v) : o.name.v[i] \notin WS

C8_HasRecipeName(doc) ==
    \E i \in 1..Len(doc) :
        /\ doc[i].tag = "script" /\ doc[i].type = "application/ld+json"
        /\ LET d == doc[i].data
           IN  \/ d.kind = "dict" /\ C8_IsRecipeWithName(d.obj)
               \/ /\ d.kind = "dict" /\ d.graph.kind = "list"
                  /\ \E k \in 1..Len(d.graph.items) : C8_IsRecipeWithName(d.graph.items[k])
               \/ /\ d.kind = "list"
                  /\ \E k \in 1..Len(d.items) : C8_IsRecipeWithName(d.items[k])

C8_IsScript(e) == e.tag = "script"

C8_ExamplePage ==
    <<Meta("property", "og:title", "key_content", OgKaraage),
      LdJson(JDict(Recipe(NameKaraage)))>>

C8_JsonLdWins ==
    title # Unset =>
        /\ C8_HasRecipeName(html) => title = TitleOfHtml(SelectSeq(html, C8_IsScript))
        /\ html = C8_ExamplePage => title = NameKaraage

C8_Witness == html = C8_ExamplePage /\ title = NameKaraage

\* C9: extract_og_or_title returns the value of the highest-priority source
\* that has a non-blank one, in the order og:title, twitter:title, <title>
\* (the value of a source is that of its first match); in particular the
\* twitter:title is returned when og:title gives no non-blank value and
\* twitter:title has one.
C9_Level(doc, attr, key) ==
    LET m == SearchMeta(doc, attr, {key})
    IN  IF m # None /\ strip(m) # <<>> THEN strip(m) ELSE None

C9_TitleLevel(doc) ==
    LET T(e) == e.tag = "title"
        i == FirstIdx(doc, T)
    IN  IF i # 0 /\ strip(doc[i].text) # <<>> THEN CollapseWs(strip(doc[i].text)) ELSE None

C9_Expected(doc) ==
    IF C9_Level(doc, "property", "og:title") # None
    THEN C9_Level(doc, "property", "og:title")
    ELSE IF C9_Level(doc, "name", "twitter:title") # None
         THEN C9_Level(doc, "name", "twitter:title")
         ELSE C9_TitleLevel(doc)

C9_PriorityOrder == metaTitle # Unset => metaTitle = C9_Expected(html)

(***************************************************************************)
(* Claims about the validator and the classifier                           *)
(***************************************************************************)

\* C5: _is_safe_public_http_url returns True exactly when the URL parses, its
\* scheme is http or https, it has a hostname other than localhost, the
\* hostname resolves, and the address is none of private, loopback,
\* link-local, reserved, multicast; every failure gives False, not an exception.
C5_SafeIff ==
    safe # Unset =>
        /\ safe \in {PyBool(TRUE), PyBool(FALSE)}
        /\ safe = PyBool(TRUE) <=>
              /\ ~url.bad
              /\ Urlparse(url).scheme \in {<<"h", "t", "t", "p">>, <<"h", "t", "t", "p", "s">>}
              /\ Urlparse(url).hostname \notin {None, <<>>}
              /\ Urlparse(url).hostname # <<"l", "o", "c", "a", "l", "h", "o", "s", "t">>
              /\ dns.ok
              /\ ~dns.ip.is_private /\ ~dns.ip.is_loopback /\ ~dns.ip.is_link_local
              /\ ~dns.ip.is_reserved /\ ~dns.ip.is_multicast

\* an upper-case HTTP URL of a public host is accepted
C5_Witness ==
    /\ safe = PyBool(TRUE)
    /\ url.scheme = <<"H", "T", "T", "P">> /\ url.host = <<"a", ".", "j", "p">>

\* C10: guess_category_from_text returns the label of the first rule, in
\* declared order, one of whose keywords occurs in the lower-cased text, also
\* when later rules match too, and the default category when no rule matches
\* (the empty string and None included).
C10_Matching(t) ==
    {i \in 1..Len(RULES) : \E j \in 1..Len(RULES[i].kws) : Contains(t, RULES[i].kws[j])}

C10_FirstRuleWins ==
    category # Unset =>
        LET t == IF text \in {None, <<>>} THEN <<>> ELSE Lower(text)
            M == C10_Matching(t)
        IN  /\ M = {} => category = DEFAULT_CATEGORY
            /\ M # {} => category = RULES[Min(M)].label
            /\ text \in {None, <<>>} => category = DEFAULT_CATEGORY

\* パンケーキ matches the パン rule (4th) and the スイーツ rule (5th): パン wins
C10_Witness ==
    /\ text = <<"k_pa", "k_n", "k_ke", "k_choon", "k_ki">>
    /\ C10_Matching(text) = {4, 5}
    /\ category = RULES[4].label

(***************************************************************************)
(* Claims about the cached lookups                                         *)
(***************************************************************************)

\* C4: in every call that is not served from the cache, the validator runs
\* on the stripped URL before any request is sent for that same URL, and a
\* URL the validator rejects gives None with no request at all.
C4_ValidateBeforeFetch ==
    /\ \A t \in Threads :
         LET c == call[t]
         IN  /\ (c.pc = "fetch" \/ c.fetched) => c.validated /\ c.safe /\ ~c.hit
             /\ c.validated => c.checked = <<StripUrl(c.url)>>
             /\ c.fetched => c.target = c.checked
             /\ (c.validated /\ ~c.safe) =>
                    ~c.fetched /\ c.pc \in {"store", "done"} /\ c.res = None
             /\ (c.pc \in {"store", "done"} /\ ~c.hit /\ ~IsEmpty(c.url)) => c.validated
    /\ (prev.validated /\ ~prev.safe) => ~prev.fetched /\ prev.res = None
    /\ prev.fetched => prev.validated /\ prev.safe /\ prev.target = prev.checked

\* a padded URL of a public-looking host that the validator rejects
C4_Witness ==
    \E t \in Threads :
        /\ call[t].pc = "done" /\ call[t].url = [pad |-> TRUE, loc |-> PubLoc]
        /\ call[t].validated /\ ~call[t].safe /\ ~call[t].fetched /\ call[t].res = None

\* The call in call[t] has finished and the call before it had the same argument.
C6_Second(t) ==
    call[t].pc = "done" /\ prev.pc = "done" /\ prev.url = call[t].url

C6_Fetches(c) == IF c.fetched THEN 1 ELSE 0

\* C6 as stated: two calls in sequence with the same URL string perform
\* exactly one network fetch, the second call being a cache hit that returns
\* the first call's value without validation or network activity.
C6_ExactlyOneFetch ==
    \A t \in Threads :
        C6_Second(t) =>
            /\ call[t].hit /\ ~call[t].validated /\ ~call[t].fetched
            /\ call[t].res = prev.res
            /\ C6_Fetches(prev) + C6_Fetches(call[t]) = 1

\* C6 amended: the second call is a cache hit that returns the first call's
\* value without validation or network activity; the two calls perform at
\* most one fetch, and exactly one when the first call was a miss whose URL
\* is not empty and passed validation.
C6_AtMostOneFetch ==
    \A t \in Threads :
        C6_Second(t) =>
            /\ call[t].hit /\ ~call[t].validated /\ ~call[t].fetched
            /\ call[t].res = prev.res
            /\ C6_Fetches(prev) + C6_Fetches(call[t]) <= 1
            /\ C6_Fetches(prev) + C6_Fetches(call[t]) = 1
                   <=> (~prev.hit /\ ~IsEmpty(prev.url) /\ prev.validated /\ prev.safe)

\* the first call fetched a page and got a value, the second call returns it
C6_Witness ==
    \E t \in Threads :
        /\ C6_Second(t) /\ call[t].hit
        /\ prev.fetched /\ prev.res # None /\ call[t].res = prev.res

\* the cached key used least recently, by the history of uses
C7_Pos(k) == CHOOSE i \in 1..Len(hist.order) : hist.order[i] = k

C7_Lru == CHOOSE k \in Keys(cache.entries) :
              \A j \in Keys(cache.entries) : C7_Pos(k) <= C7_Pos(j)

\* C7: a cache never holds more than maxsize entries; storing a new key in a
\* full cache drops exactly the key used least recently (a hit counts as a
\* use), nothing else ever leaves the cache, and a lookup of a key that is
\* cached is a hit that fetches nothing.
C7_LruEviction ==
    [][ LET c    == cache.entries
            gone == Keys(c) \ Keys(cache'.entries)
            new  == Keys(cache'.entries) \ Keys(c)
        IN  /\ Len(cache'.entries) <= maxsize
            /\ gone # {} => Len(c) = maxsize /\ Cardinality(new) = 1 /\ gone = {C7_Lru}
            /\ \A t \in Threads :
                 (call[t].pc = "idle" /\ call'[t].pc # "idle" /\ call'[t].url \in Keys(c))
                     => call'[t].pc = "done" /\ call'[t].hit /\ ~call'[t].fetched
      ]_vars

\* the first key ever stored was used again, another key was dropped in its
\* place, and a lookup of the first key is a hit
C7_Witness ==
    /\ Len(hist.first) = 1 /\ hist.first[1] \in Keys(cache.entries)
    /\ hist.first[1] \notin hist.evicted /\ hist.evicted # {}
    /\ \E t \in Threads :
         call[t].pc = "done" /\ call[t].hit /\ call[t].url = hist.first[1]

(***************************************************************************)
(* Claims about the categories                                             *)
(***************************************************************************)

\* the text with every ideographic space made a space and the spaces at both
\* ends removed
C11_Spaced == IF text = None THEN <<>>
              ELSE StripSet([i \in 1..Len(text) |->
                               IF text[i] = "U+3000" THEN " " ELSE text[i]], WS)

\* C11: guess_category_from_text and normalize_category only return members
\* of the 19 CATEGORY_KEYS; normalize_category returns its space-normalized
\* input when that is a member and the "other" key for everything else.
C11_LabelsAreKeys ==
    /\ Cardinality(CATEGORY_KEYS) = 19
    /\ category # Unset => category \in CATEGORY_KEYS
    /\ normalized # Unset =>
          /\ normalized \in CATEGORY_KEYS
          /\ C11_Spaced \in CATEGORY_KEYS => normalized = C11_Spaced
          /\ C11_Spaced \notin CATEGORY_KEYS => normalized = <<"h_so", "h_no", "j_hoka">>

\* パン between an ideographic space and a space normalizes to パン, while the
\* classifier also gives a key for it
C11_Witness ==
    /\ text = <<"U+3000", "k_pa", "k_n", " ">>
    /\ normalized = <<"k_pa", "k_n">>
    /\ category = <<"k_pa", "k_n">>

(***************************************************************************)
(* Claims about failures                                                   *)
(***************************************************************************)

\* C12: get_og_title and get_og_image never raise: whatever the URL string,
\* no call ends in an exception, and an unsafe target, a network error, a
\* timeout, a response that is not HTML, malformed JSON-LD and absent markup
\* each give None.
C12_FailSoft ==
    /\ \A t \in Threads :
         /\ call[t].res # Raise
         /\ (call[t].validated /\ ~call[t].safe /\ call[t].pc \in {"store", "done"})
                => call[t].res = None
         /\ call[t].failed => call[t].res = None
    /\ prev.res # Raise
    /\ prev.failed => prev.res = None
    /\ \A i \in 1..Len(cache.entries) : cache.entries[i].val # Raise

\* a call for a public URL whose fetch timed out or gave unusable content has
\* returned None
C12_Witness ==
    /\ prev.pc = "done" /\ prev.url.loc = PubLoc
    /\ prev.fetched /\ prev.failed /\ prev.res = None

(***************************************************************************)
(* Claims about /meta                                                      *)
(***************************************************************************)

\* C13: /meta always answers with both fields; category is what
\* guess_category_from_text gives for the title, or for the empty string when
\* the title is None, which is the default category; it is never None.
C13_MetaCategory ==
    response # Unset =>
        LET body == response[2]
        IN  /\ DOMAIN body = {"title", "category"}
            /\ body.title = title
            /\ body.category # None /\ body.category \in CATEGORY_KEYS
            /\ body.title # None => body.category = guess_category_from_text(body.title)
            /\ body.title = None =>
                   /\ body.category = guess_category_from_text(<<>>)
                   /\ body.category = DEFAULT_CATEGORY

\* a page without a usable title: /meta answers title None, category おかず
C13_Witness ==
    /\ response # Unset /\ html # <<>>
    /\ response[2].title = None /\ response[2].category = <<"h_o", "h_ka", "h_zu">>

(***************************************************************************)
(* Claims about the image                                                  *)
(***************************************************************************)

\* the og:image value of the page, else its twitter:image value, stripped
C14_Value ==
    LET og == SearchMeta(imageHtml, "property", {"og:image"})
        m  == IF og # None THEN og
              ELSE SearchMeta(imageHtml, "name", {"twitter:image", "twitter:image:src"})
    IN  IF m = None THEN None ELSE strip(m)

\* C14: the image get_og_image returns, when it is not None, begins with
\* http:// or https://; a value that is a path is resolved against the page
\* URL, and a value of any other scheme gives None.
C14_AbsoluteHttp ==
    image # Unset =>
        /\ image # None =>
              \/ StartsWith(image, <<"h", "t", "t", "p", ":", "/", "/">>)
              \/ StartsWith(image, <<"h", "t", "t", "p", "s", ":", "/", "/">>)
        /\ LET v == C14_Value
           IN  /\ (Truthy(v) /\ v[1] = "/" /\ ~StartsWith(v, <<"/", "/">>)) =>
                      image = Lower(pageUrl.scheme) \o <<":", "/", "/">> \o pageUrl.host \o v
               /\ (Truthy(v) /\ RefScheme(v) \notin {<<>>} \cup HttpSchemes) => image = None

\* og:image "/k.png" on the page HTTP://a.jp/ gives http://a.jp/k.png
C14_Witness ==
    /\ pageUrl.scheme = <<"H", "T", "T", "P">>
    /\ C14_Value = <<"/", "k", ".", "p", "n", "g">>
    /\ image = <<"h", "t", "t", "p", ":", "/", "/", "a", ".", "j", "p", "/", "k", ".", "p", "n", "g">>

(***************************************************************************)
(* Claims about titles that are already clean                              *)
(***************************************************************************)

\* a title of 2 to 60 characters without a separator character, a bracket
\* or a noise word, and, to read the claim in its favour, with no whitespace
\* but single spaces between words
C15_AlreadyClean(t) ==
    /\ t # None /\ Len(t) >= 2 /\ Len(t) <= 60
    /\ CollapseWs(t) = t /\ strip(t) = t
    /\ \A i \in 1..Len(t) :
         t[i] \notin SepChars \cup {"[[", "]]", "(", ")", "fw(", "fw)"}
    /\ \A k \in 1..Len(_NOISE_WORDS) : ~Contains(t, _NOISE_WORDS[k])

\* C15: clean_dish_title returns an already-clean title unchanged.
C15_CleanIsFixed ==
    (cleaned # Unset /\ C15_AlreadyClean(raw)) => cleaned = raw

(***************************************************************************)
(* Claims about the structured data                                        *)
(***************************************************************************)

\* a JSON object whose @type is "Recipe" or a list with "Recipe" in it, and
\* whose name is a string with a character that is not whitespace
C16_Qualifies(o) ==
    /\ o.isdict
    /\ \/ o.attype.kind = "str" /\ o.attype.v = "Recipe"
       \/ o.attype.kind = "list" /\ \E i \in 1..Len(o.attype.v) : o.attype.v[i] = "Recipe"
    /\ o.name.kind = "str" /\ \E j \in 1..Len(o.name.v) : o.name.v[j] \notin WS

\* the values a block offers, in order: none for a block that is not ld+json,
\* is blank, malformed or a scalar; the object and then its @graph members;
\* or the members of the array
C16_Offers(e) ==
    IF e.tag # "script" THEN <<>>
    ELSE IF e.type # "application/ld+json" THEN <<>>
    ELSE IF e.data.kind = "dict"
         THEN <<e.data.obj>> \o (IF e.data.graph.kind = "list" THEN e.data.graph.items ELSE <<>>)
    ELSE IF e.data.kind = "list" THEN e.data.items
    ELSE <<>>

RECURSIVE C16_AllOffers(_)
C16_AllOffers(doc) ==
    IF doc = <<>> THEN <<>> ELSE C16_Offers(Head(doc)) \o C16_AllOffers(Tail(doc))

\* C16: extract_recipe_name_from_jsonld returns the stripped name of the first
\* qualifying candidate, blocks in document order and candidates in order
\* within a block; malformed blocks and candidates without a usable name are
\* passed over; None when nothing qualifies.
C16_FirstRecipeName ==
    jsonldName # Unset =>
        LET q == SelectSeq(C16_AllOffers(html), C16_Qualifies)
        IN  /\ q = <<>> => jsonldName = None
            /\ q # <<>> => jsonldName = StripSet(q[1].name.v, WS)

\* a malformed block, then a block whose object and @graph both hold recipes:
\* the object's name is returned
C16_Witness ==
    /\ Len(html) = 2
    /\ html[1] = LdJson([kind |-> "malformed"])
    /\ html[2] = LdJson(JGraph(Recipe(Carbonara), <<Recipe(Blank), Recipe(Pasta)>>))
    /\ jsonldName = Carbonara

(***************************************************************************)
(* Claims about overlapping lookups                                        *)
(***************************************************************************)
\* thread t starts a call in this step
C17_Starts(t) == call[t].pc = "idle" /\ call'[t].pc # "idle"

\* a call that starts after a call with the same argument has returned: when the
\* entry is still cached it is served from the cache without a fetch, and the
\* entry is missing only if it has been evicted
C17_LateStart ==
    \A t \in Threads :
        (C17_Starts(t) /\ call'[t].url \in hist.completed) =>
            LET u == call'[t].url
                c == cache.entries
            IN  IF u \in Keys(c)
                THEN /\ call'[t].pc = "done"
                     /\ call'[t].hit
                     /\ ~call'[t].fetched
                     /\ call'[t].res = c[IndexOf(c, u)].val
                ELSE u \in hist.evicted

\* a fetch follows a miss
C17_FetchAfterMiss ==
    \A t \in Threads : (call[t].fetched \/ call[t].pc = "fetch") => ~call[t].hit

\* two calls in progress have fetched the same URL
C17_Duplicate(t1, t2) ==
    /\ t1 # t2
    /\ call[t1].url = call[t2].url
    /\ call[t1].fetched /\ call[t2].fetched

\* C17 as the specification states it: the same URL is fetched twice only by
\* calls that started before any call for that URL had completed, and a call that
\* starts after one has completed, the entry still cached, fetches nothing and
\* returns the cached value.
C17_DuplicateOnlyBeforeCompletion ==
    /\ [](\A t1, t2 \in Threads :
            C17_Duplicate(t1, t2) => (~call[t1].late /\ ~call[t2].late))
    /\ [][C17_LateStart]_vars

\* C17 (amended): a call fetches only after a miss, and a call that started
\* after a call for the same URL had completed fetches only if the entry has
\* been evicted; a call that starts after one has completed, the entry still
\* cached, fetches nothing and returns the cached value.
C17_DuplicateOnlyWhenCold ==
    /\ [](C17_FetchAfterMiss /\
          \A t \in Threads :
              (call[t].fetched /\ call[t].late) => call[t].url \in hist.evicted)
    /\ [][C17_LateStart]_vars

\* two calls that started before any call for the URL had completed have both
\* fetched it: there is no single-flight
C17_Witness ==
    \E t1, t2 \in Threads :
        /\ C17_Duplicate(t1, t2)
        /\ ~call[t1].late /\ ~call[t2].late
        /\ call[t1].pc = "done" /\ call[t2].pc = "store"
        /\ call[t1].res # call[t2].res

(***************************************************************************)
(* Claims about cached failures                                            *)
(***************************************************************************)
\* the call of thread t ended in None because the validator (or the name
\* resolution inside it) rejected the URL or because the fetch failed
C18_Failure(c) ==
    /\ c.res = None
    /\ (c.validated /\ ~c.safe) \/ (c.fetched /\ c.failed)

C18_CachedNone(c, k) == k \in Keys(c) /\ c[IndexOf(c, k)].val = None

\* C18: the None of a call that was rejected or whose fetch failed is stored
\* under the URL string as passed, and a lookup of a URL string whose entry
\* holds None returns None without running the validator or the network and
\* leaves the entry in place, whatever the name service and the server would
\* answer now.
C18_FailureMemoized ==
    [][ \A t \in Threads :
          LET k == call[t].url
              c == cache.entries
          IN  /\ (call[t].pc = "store" /\ call'[t].pc = "done" /\ C18_Failure(call[t]))
                    => C18_CachedNone(cache'.entries, k)
              /\ (call[t].pc = "idle" /\ call'[t].pc # "idle"
                    /\ C18_CachedNone(c, call'[t].url))
                    => /\ call'[t].pc = "done" /\ call'[t].res = None
                       /\ ~call'[t].validated /\ Len(call'[t].checked) = 0
                       /\ ~call'[t].fetched /\ Len(call'[t].target) = 0
                       /\ C18_CachedNone(cache'.entries, call'[t].url)
      ]_vars

\* a lookup is answered None from the entry a failed call left, right after a
\* call for the same page under another URL string was accepted and fetched it
C18_Witness ==
    \E t \in Threads :
        /\ call[t].pc = "done" /\ call[t].hit /\ call[t].res = None
        /\ call[t].url.loc = PubLoc /\ ~call[t].url.pad
        /\ prev.url.loc = PubLoc /\ prev.url.pad
        /\ prev.validated /\ prev.safe /\ prev.fetched /\ ~prev.failed /\ prev.res # None

(***************************************************************************)
(* Claims about the stored rows                                            *)
(***************************************************************************)

\* C19: whatever is submitted to /add, /edit and /delete, the category of every
\* stored row is a member of CATEGORY_KEYS: the submitted value without the
\* spaces around it when that is a key, the "other" key when it is not.
C19_StoredCategoriesAreKeys ==
    \A r \in rows :
        /\ r.category \in CATEGORY_KEYS
        /\ \/ r.category \in {normalize_spaces(c) : c \in DbCategories}
           \/ r.category = OTHER_CATEGORY

\* after an edit, one row has the "other" key and one a key that was submitted
C19_Witness ==
    /\ reply = <<"editok">>
    /\ \E r1, r2 \in rows :
         r1.category = OTHER_CATEGORY /\ r2.category = CATEGORIES[2]

\* no two rows with one URL, or with one id
C20_UniqueUrls ==
    \A r1, r2 \in rows : (r1.url = r2.url \/ r1.id = r2.id) => r1 = r2

\* a step leaves every row that stays its URL
C20_UrlsStay ==
    \A r1 \in rows : \A r2 \in rows' : r1.id = r2.id => r1.url = r2.url

\* the step ends an /add whose URL is stored, in the row the handler looked up
C20_AddOfStored ==
    /\ req.pc = "queried" /\ req'.pc = "idle" /\ req.op = "add"
    /\ req.found # {} /\ req.found \subseteq rows

\* C20 as stated: no two stored rows have the same URL; an /add with a stored
\* URL inserts nothing, writes the submitted title and category into that row
\* and reports 'upd' when they differ from the stored ones, and otherwise
\* leaves the row unchanged and reports 'dup'; no row's URL ever changes.
C20_UpdatesWhenDifferent ==
    /\ [](C20_UniqueUrls)
    /\ [][ /\ C20_UrlsStay
           /\ C20_AddOfStored =>
                LET e == CHOOSE r \in req.found : TRUE
                IN  IF e.title # req.title \/ e.category # req.category
                    THEN /\ rows' = (rows \ {e}) \cup
                                    {[e EXCEPT !.title = req.title,
                                               !.category = req.category]}
                         /\ reply'[1] = "upd"
                    ELSE rows' = rows /\ reply'[1] = "dup"
      ]_vars

\* C20 (amended): no two stored rows have the same URL; an /add with a stored
\* URL inserts nothing: it writes the submitted category when it differs from
\* the stored one and the submitted title when it differs and is not blank,
\* reporting 'upd' if it wrote either, and otherwise leaves the row unchanged
\* and reports 'dup'; an /add of a URL that got stored after the handler's
\* query reports 'dup' and inserts nothing; no row's URL ever changes.
C20_UpdatesNonBlank ==
    /\ [](C20_UniqueUrls)
    /\ [][ /\ C20_UrlsStay
           /\ C20_AddOfStored =>
                LET e    == CHOOSE r \in req.found : TRUE
                    newT == IF req.title # <<>> THEN req.title ELSE e.title
                    new  == [e EXCEPT !.title = newT, !.category = req.category]
                IN  /\ rows' = (rows \ {e}) \cup {new}
                    /\ reply'[1] = IF new # e THEN "upd" ELSE "dup"
           /\ (req.pc = "queried" /\ req'.pc = "idle" /\ req.op = "add"
                 /\ req.found = {} /\ Existing(rows, req.url) # {})
                => rows' = rows /\ reply'[1] = "dup"
      ]_vars

\* two rows are stored and an /add with the URL of one of them and a blank
\* title has just reported 'upd': the row has the new category and its old title
C20_Witness ==
    /\ Cardinality(rows) = 2
    /\ reply[1] = "upd" /\ reply[3] = <<>> /\ reply[4] = OTHER_CATEGORY
    /\ \E r \in rows :
         r.url = reply[2] /\ r.title = <<"x">> /\ r.category = OTHER_CATEGORY

====
